---------------------------- MODULE Spec2Model ----------------------------
(***************************************************************************)
(* A model of the louvre markup parser (src/src/parser.cpp, with the data  *)
(* types of src/include/louvre/api.hpp).                                    *)
(*                                                                         *)
(* A character is a one-character string, a std::string is a sequence of   *)
(* characters, a std::optional is a sequence of length 0 or 1, and the     *)
(* nodes that shared_ptrs keep alive in a tree are the entries of the      *)
(* arena `nodes`, a shared_ptr<Node> being an index into it.               *)
(*                                                                         *)
(* One step of the model is one iteration of the scanning loop of          *)
(* Parser::collect_block; the iteration that returns a block also performs *)
(* the switch of Parser::parse on that block.                              *)
(***************************************************************************)
EXTENDS Naturals, Integers, Sequences, FiniteSets, TLC

VARIABLES
    pc,            \* "config": constructed, parse() not yet called;
                   \* "scan": inside parse(); "done": parse() returned
    mSource,       \* Parser::mSource
    mTagBindings,  \* Parser::mTagBindings: name -> handler
    mOffset,       \* Parser::mOffset
    mLine,         \* Parser::mLine
    mColumn,       \* Parser::mColumn
    buf,           \* the local `buf` of the running collect_block call
    blockStart,    \* mOffset when the running collect_block call began
    nodes,         \* the nodes attached to the tree, the first one included
    root,          \* the local `root` of parse(): the current branch
    blocks,        \* the blocks collect_block has returned so far
    result         \* what parse() returned

vars == <<pc, mSource, mTagBindings, mOffset, mLine, mColumn, buf,
          blockStart, nodes, root, blocks, result>>

----------------------------------------------------------------------------
(* Bounds of the model. *)

\* Number of tokens of Tokens concatenated into a source text.
MaxTokens == 3

\* Number of arguments in the generated tag invocations.
MaxArgs == 2

\* Number of add_tag_binding calls made before parse().
MaxBindings == 1

----------------------------------------------------------------------------
(* Characters. *)

NUL == "\\0"

Digits == {"0", "1", "2", "3", "4", "5", "6", "7", "8", "9"}

Lower == {"a", "b", "c", "d", "e", "f", "g", "h", "i", "j", "k", "l", "m",
          "n", "o", "p", "q", "r", "s", "t", "u", "v", "w", "x", "y", "z"}

Upper == {"A", "B", "C", "D", "E", "F", "G", "H", "I", "J", "K", "L", "M",
          "N", "O", "P", "Q", "R", "S", "T", "U", "V", "W", "X", "Y", "Z"}

SpaceChars == {" ", "\t", "\n", "\r", "\f"}

AlnumChars == Digits \cup Lower \cup Upper

\* std::isspace / std::iswspace in the "C" locale
isspace(c) == c \in SpaceChars

\* std::iswalnum in the "C" locale
iswalnum(c) == c \in AlnumChars

is_tag_char(c) == iswalnum(c) \/ c = "_"

----------------------------------------------------------------------------
(* Optional values. *)

nullopt == <<>>

Some(v) == <<v>>

has_value(o) == o # <<>>

value(o) == o[1]

----------------------------------------------------------------------------
(* Node (api.hpp). *)

\* Node(StandardNodeType type) : mType(type) -- mNum is given no value
Node(type) ==
    [type |-> type, text |-> nullopt, tag |-> nullopt, parent |-> nullopt,
     children |-> <<>>, num |-> nullopt]

\* Node::text
NodeText(text) == [Node("Text") EXCEPT !.text = Some(text)]

\* Node::set_tag
set_tag(node, tag) == [node EXCEPT !.tag = Some(tag)]

\* add_child with the count of all attached nodes for the sibling index.
add_child_misnumbered(ns, parent, child) ==
    LET idx == Len(ns) + 1
        attached == [child EXCEPT !.num = Some(Len(ns) - 1),
                                  !.parent = Some(parent)]
    IN Append([ns EXCEPT ![parent].children = Append(@, idx)], attached)

\* An add_child that puts the child in front of its siblings.
add_child_first(ns, parent, child) ==
    LET idx == Len(ns) + 1
        attached == [child EXCEPT !.num = Some(Len(ns[parent].children)),
                                  !.parent = Some(parent)]
    IN Append([ns EXCEPT ![parent].children = <<idx>> \o @], attached)

\* Node::add_child: parent->add_child(child), for a child not yet in the
\* arena `ns`; the child becomes its last entry.
add_child(ns, parent, child) ==
    LET idx == Len(ns) + 1
        attached == [child EXCEPT !.num = Some(Len(ns[parent].children)),
                                  !.parent = Some(parent)]
    IN Append([ns EXCEPT ![parent].children = Append(@, idx)], attached)

----------------------------------------------------------------------------
(* The cursor (parser.cpp). *)

Cursor == [mOffset |-> mOffset, mLine |-> mLine, mColumn |-> mColumn]

location(cur) == [line |-> cur.mLine, column |-> cur.mColumn]

can_advance(src, cur, amount) == cur.mOffset + amount < Len(src)

advance(cur, amount) ==
    [cur EXCEPT !.mOffset = @ + amount, !.mColumn = @ + amount]

peek(src, cur, ahead) ==
    IF can_advance(src, cur, ahead)
    THEN Some(src[cur.mOffset + ahead + 1])
    ELSE nullopt

quick_peek(src, cur, ahead) ==
    LET p == peek(src, cur, ahead) IN IF has_value(p) THEN value(p) ELSE NUL

\* An advance_line that leaves the column where it is.
advance_line_keep(cur) == [cur EXCEPT !.mLine = @ + 1]

advance_line(cur) == [cur EXCEPT !.mLine = @ + 1, !.mColumn = 0]

\* A skip_whitespace that skips the space character only.
RECURSIVE skip_whitespace_spaces(_, _)
skip_whitespace_spaces(src, cur) ==
    IF can_advance(src, cur, 0) /\ quick_peek(src, cur, 0) = " "
    THEN skip_whitespace_spaces(src, advance(cur, 1))
    ELSE cur

RECURSIVE skip_whitespace(_, _)
skip_whitespace(src, cur) ==
    IF can_advance(src, cur, 0) /\ isspace(quick_peek(src, cur, 0))
    THEN skip_whitespace(src, advance(cur, 1))
    ELSE cur

\* A consume_if that looks at the character before it looks for the end.
consume_if_unordered(src, cur, allowed) ==
    IF quick_peek(src, cur, 0) \notin allowed
    THEN [error |-> TRUE, message |-> "Unexpected token",
          location |-> location(cur)]
    ELSE IF ~has_value(peek(src, cur, 0))
    THEN [error |-> TRUE, message |-> "Unexpected EOF",
          location |-> location(cur)]
    ELSE [error |-> FALSE, char |-> quick_peek(src, cur, 0),
          cur |-> advance(cur, 1)]

\* The result is the error, or the consumed character and the cursor after it.
consume_if(src, cur, allowed) ==
    IF ~has_value(peek(src, cur, 0))
    THEN [error |-> TRUE, message |-> "Unexpected EOF",
          location |-> location(cur)]
    ELSE IF quick_peek(src, cur, 0) \notin allowed
    THEN [error |-> TRUE, message |-> "Unexpected token",
          location |-> location(cur)]
    ELSE [error |-> FALSE, char |-> quick_peek(src, cur, 0),
          cur |-> advance(cur, 1)]

RECURSIVE collect_sequence_from(_, _, _)
collect_sequence_from(src, cur, acc) ==
    IF can_advance(src, cur, 0) /\ is_tag_char(quick_peek(src, cur, 0))
    THEN collect_sequence_from(src, advance(cur, 1),
                               Append(acc, quick_peek(src, cur, 0)))
    ELSE [buf |-> acc, cur |-> cur]

collect_sequence(src, cur) == collect_sequence_from(src, cur, <<>>)

\* An add_argument that puts the argument first.
add_argument_front(tag, arg) == [tag EXCEPT !.arguments = <<arg>> \o @]

\* Tag::add_argument
add_argument(tag, arg) == [tag EXCEPT !.arguments = Append(@, arg)]

\* A loop that records every argument, the empty ones too.
RECURSIVE collect_arguments_recording(_, _, _)
collect_arguments_recording(src, cur, tag) ==
    LET c1   == skip_whitespace(src, cur)
        arg  == collect_sequence(src, c1)
        t1   == add_argument(tag, arg.buf)
        next == consume_if(src, arg.cur, {",", ")"})
    IN IF next.error
       THEN [error |-> TRUE, message |-> next.message,
             location |-> next.location, cur |-> arg.cur]
       ELSE IF next.char = ")"
       THEN [error |-> FALSE, tag |-> t1, cur |-> next.cur]
       ELSE collect_arguments_recording(src, next.cur, t1)

\* A local of a function: the expression e is evaluated once and F is
\* applied to its value.
Bind(e, F(_)) == CHOOSE res \in { F(x) : x \in {e} } : TRUE

\* The `while (true)` loop of collect_tag.
RECURSIVE collect_arguments(_, _, _)
collect_arguments(src, cur, tag) ==
    Bind(cur, LAMBDA c0 : Bind(tag, LAMBDA t0 :
    Bind(skip_whitespace(src, c0), LAMBDA c1 :
    Bind(collect_sequence(src, c1), LAMBDA arg :
    Bind(IF arg.buf # <<>> THEN add_argument(t0, arg.buf) ELSE t0, LAMBDA t1 :
    Bind(consume_if(src, arg.cur, {",", ")"}), LAMBDA next :
       IF next.error
       THEN [error |-> TRUE, message |-> next.message,
             location |-> next.location, cur |-> arg.cur]
       ELSE IF next.char = ")"
       THEN [error |-> FALSE, tag |-> t1, cur |-> next.cur]
       ELSE collect_arguments(src, next.cur, t1)))))))

\* A collect_tag that passes on the end of input met where a '(' may stand.
collect_tag_eof(src, cur) ==
    LET c1   == advance(cur, 1)
        name == collect_sequence(src, c1)
        tag  == [name |-> name.buf, location |-> location(c1),
                 arguments |-> <<>>]
        open == consume_if(src, name.cur, {"("})
    IN IF open.error /\ open.message = "Unexpected EOF"
       THEN [error |-> TRUE, message |-> open.message,
             location |-> open.location, cur |-> name.cur]
       ELSE IF open.error
       THEN [error |-> FALSE, tag |-> tag, cur |-> name.cur]
       ELSE collect_arguments(src, open.cur, tag)

collect_tag(src, cur) ==
    Bind(advance(cur, 1), LAMBDA c1 :
    Bind(collect_sequence(src, c1), LAMBDA name :
    Bind([name |-> name.buf, location |-> location(c1), arguments |-> <<>>],
         LAMBDA tag :
    Bind(consume_if(src, name.cur, {"("}), LAMBDA open :
       IF open.error
       THEN [error |-> FALSE, tag |-> tag, cur |-> name.cur]
       ELSE collect_arguments(src, open.cur, tag)))))

\* Parser::trim
RECURSIVE trim_start(_, _)
trim_start(s, start) ==
    IF start < Len(s) /\ isspace(s[start + 1])
    THEN trim_start(s, start + 1)
    ELSE start

RECURSIVE trim_end(_, _, _)
trim_end(s, start, end) ==
    IF end > start /\ isspace(s[end])
    THEN trim_end(s, start, end - 1)
    ELSE end

\* A trim of the back only.
trim_back(s) == SubSeq(s, 1, trim_end(s, 0, Len(s)))

\* A trim of the front only.
trim_front(s) == SubSeq(s, trim_start(s, 0) + 1, Len(s))

trim(s) ==
    LET start == trim_start(s, 0)
        end   == trim_end(s, start, Len(s))
    IN SubSeq(s, start + 1, end)

ends_with(s, c) == Len(s) > 0 /\ s[Len(s)] = c

----------------------------------------------------------------------------
(* The tag registry. *)

Str_end       == <<"e", "n", "d">>
Str_left      == <<"l", "e", "f", "t">>
Str_center    == <<"c", "e", "n", "t", "e", "r">>
Str_right     == <<"r", "i", "g", "h", "t">>
Str_justify   == <<"j", "u", "s", "t", "i", "f", "y">>
Str_paragraph == <<"p", "a", "r", "a", "g", "r", "a", "p", "h">>
Str_numbers   == <<"n", "u", "m", "b", "e", "r", "s">>
Str_bullets   == <<"b", "u", "l", "l", "e", "t", "s">>
Str_item      == <<"i", "t", "e", "m">>

Handler(action, type) == [action |-> action, type |-> type]

\* The bindings the constructor registers.
BuiltinBindings ==
    (Str_end       :> Handler("End", "Null")) @@
    (Str_left      :> Handler("AddChildAndBranch", "Left")) @@
    (Str_center    :> Handler("AddChildAndBranch", "Center")) @@
    (Str_right     :> Handler("AddChildAndBranch", "Right")) @@
    (Str_justify   :> Handler("AddChildAndBranch", "Justify")) @@
    (Str_paragraph :> Handler("AddChildAndBranch", "Paragraph")) @@
    (Str_numbers   :> Handler("AddChildAndBranch", "Numebrs")) @@
    (Str_bullets   :> Handler("AddChildAndBranch", "Bullets")) @@
    (Str_item      :> Handler("AddChildAndBranch", "Item")) @@
    (<<>>          :> Handler("AddChild", "LineBreak"))

\* An add_tag_binding that inserts only where the name is not bound yet.
add_tag_binding_keep(bindings, tag, binding) ==
    [n \in DOMAIN bindings \cup {tag} |->
        IF n \in DOMAIN bindings THEN bindings[n] ELSE binding]

\* Parser::add_tag_binding: mTagBindings[tag] = binding
add_tag_binding(bindings, tag, binding) ==
    [n \in DOMAIN bindings \cup {tag} |->
        IF n = tag THEN binding ELSE bindings[n]]

\* tag_to_node reporting the error with a tag whose name is lost.
tag_to_node_nameless(bindings, tag) ==
    IF tag.name \in DOMAIN bindings
    THEN LET handler == bindings[tag.name]
         IN [error |-> FALSE, action |-> handler.action,
             node |-> set_tag(Node(handler.type), tag)]
    ELSE [error |-> TRUE, message |-> "Unknown tag",
          tag |-> [tag EXCEPT !.name = <<>>]]

\* A tag_to_node that does not call set_tag.
tag_to_node_untagged(bindings, tag) ==
    IF tag.name \in DOMAIN bindings
    THEN LET handler == bindings[tag.name]
         IN [error |-> FALSE, action |-> handler.action,
             node |-> Node(handler.type)]
    ELSE [error |-> TRUE, message |-> "Unknown tag", tag |-> tag]

\* Parser::tag_to_node
tag_to_node(bindings, tag) ==
    IF tag.name \in DOMAIN bindings
    THEN LET handler == bindings[tag.name]
         IN [error |-> FALSE, action |-> handler.action,
             node |-> set_tag(Node(handler.type), tag)]
    ELSE [error |-> TRUE, message |-> "Unknown tag", tag |-> tag]

----------------------------------------------------------------------------
(* The source texts and the user's bindings. *)

\* The pieces the generated source texts are made of.
Tokens ==
    { <<"#">>, <<"#">> \o Str_end, <<"#">> \o Str_center, <<"a">>, <<" ">>,
      <<"\t">>, <<"\n">> }

RECURSIVE TokenTexts(_)
TokenTexts(n) ==
    IF n = 0
    THEN { <<>> }
    ELSE LET shorter == TokenTexts(n - 1)
         IN shorter \cup { s \o t : s \in shorter, t \in Tokens }

\* What stands between the commas of a generated argument list.
ArgWords ==
    { <<"a">>, <<"b">>, <<>>, <<" ", "a">>, <<"b", " ">>, <<"\n", "a">> }

RECURSIVE ArgLists(_)
ArgLists(n) ==
    IF n = 0
    THEN { <<>> }
    ELSE LET shorter == ArgLists(n - 1)
         IN shorter \cup { Append(l, w) : l \in shorter, w \in ArgWords }

RECURSIVE Join(_)
Join(l) ==
    IF l = <<>> THEN <<>>
    ELSE IF Len(l) = 1 THEN l[1]
    ELSE l[1] \o <<",">> \o Join(Tail(l))

\* "#name(w1,...,wk" followed by ")", by nothing, by another character, or
\* by ")" and text.
ArgTexts ==
    { <<"#">> \o name \o <<"(">> \o Join(l) \o close :
        name \in { Str_center, Str_end, <<"a">>, <<>> },
        l \in ArgLists(MaxArgs),
        close \in { <<")">>, <<>>, <<"(">>, <<")", "a">> } }

\* The document of the specification's round-trip example.
TitleDocument ==
    <<"#", "\n", "#", "c", "e", "n", "t", "e", "r", "\n", "T", "H", "I",
       "S", " ", "I", "S", " ", "T", "H", "E", " ", "T", "I", "T", "L", "E",
       "\n", "#", "e", "n", "d" >>

\* SOURCE of tests/basic-document.cpp.
SOURCE ==
    <<"#", "\n", "#", "c", "e", "n", "t", "e", "r", "\n", "T", "H", "I",
       "S", " ", "I", "S", " ", "T", "H", "E", " ", "T", "I", "T", "L", "E",
       "\n", "#", "e", "n", "d", "\n", "#", "\n", "#", "j", "u", "s", "t",
       "i", "f", "y", "\n", "H", "e", "l", "l", "o", " ", "t", "h", "e", "r",
       "e", ",", " ", "t", "h", "i", "s", " ", "i", "s", " ", "s", "o", "m",
       "e", " ", "t", "e", "x", "t", "!", " ", "#", "\n", "#", "p", "a", "r",
       "a", "g", "r", "a", "p", "h", "\n", "A", "n", "d", " ", "t", "h", "i",
       "s", " ", "i", "s", " ", "a", " ", "p", "a", "r", "a", "g", "r", "a",
       "p", "h", "!", "\n", "#", "e", "n", "d", "\n", "#", "e", "n", "d",
       "\n" >>

\* Branches nested three deep, with siblings at each level.
NestedDocument ==
    <<"#", "l", "e", "f", "t", "\n", "a", "#", "i", "t", "e", "m", "#",
       "\n", "#", "i", "t", "e", "m", " ", "b", " ", "#", "e", "n", "d", "#",
       "e", "n", "d", " ", "c", "#", "e", "n", "d", " ", "#" >>

\* Two branches are opened and only one is closed.
OpenDocument ==
    <<"#", "r", "i", "g", "h", "t", "#", "i", "t", "e", "m", "\n", "a", "b",
       " ", "#", "e", "n", "d", " ", "c" >>

\* Runs of '#' of lengths 2 to 6 between words.
HashDocument ==
    <<"a", "#", "#", "b", "#", "#", "#", "\n", "c", "#", "#", "#", "#", "d",
       " ", "#", "#", "#", "#", "#", "\n", "#", "#", "#", "#", "#", "#" >>

\* The argument-parsing examples: "#center(a,b,c)" and "#center(a,b".
ArgumentsDocument ==
    <<"#">> \o Str_center \o <<"(", "a", ",", "b", ",", "c", ")">>

UnclosedDocument == <<"#">> \o Str_center \o <<"(", "a", ",", "b">>

\* "#nonexistent"
UnknownDocument ==
    <<"#", "n", "o", "n", "e", "x", "i", "s", "t", "e", "n", "t">>

\* "a #center(##) b": a doubled '#' inside an argument list.
HashArgumentDocument ==
    <<"a", " ", "#">> \o Str_center \o <<"(", "#", "#", ")", " ", "b">>

\* "a #center(b #nonexistent #end": three faulty tags.
FaultyDocument ==
    <<"a", " ", "#">> \o Str_center \o <<"(", "b", " ">> \o UnknownDocument
        \o <<" ", "#">> \o Str_end

\* "a \t\n b\t\tc\n\n\td": runs of white space between the letters.
WhitespaceDocument ==
    <<"a", " ", "\t", "\n", " ", "b", "\t", "\t", "c", "\n", "\n", "\t",
      "d">>

\* "ab1 Z9 x": letters, digits and single spaces.
PlainDocument == <<"a", "b", "1", " ", "Z", "9", " ", "x">>

\* "#center( a , b )": white space on both sides of the arguments.
SpacedArgumentsDocument ==
    <<"#">> \o Str_center \o <<"(", " ", "a", " ", ",", " ", "b", " ", ")">>

\* "#center( a,\n b)": white space before the arguments only.
LeadingSpaceDocument ==
    <<"#">> \o Str_center \o <<"(", " ", "a", ",", "\n", " ", "b", ")">>

\* "#center(a,,b)": nothing in the second of three argument positions.
EmptyArgumentDocument ==
    <<"#">> \o Str_center \o <<"(", "a", ",", ",", "b", ")">>

\* "#a#end" and "#end#a": two faulty tags each.
UnknownFirstDocument == <<"#", "a", "#">> \o Str_end

EndFirstDocument == <<"#">> \o Str_end \o <<"#", "a">>

Documents ==
    { TitleDocument, SOURCE, NestedDocument, OpenDocument, HashDocument,
      ArgumentsDocument, UnclosedDocument, UnknownDocument,
      HashArgumentDocument, FaultyDocument, UnknownFirstDocument,
      EndFirstDocument, WhitespaceDocument, PlainDocument,
      SpacedArgumentsDocument, LeadingSpaceDocument, EmptyArgumentDocument }

Sources == TokenTexts(MaxTokens) \cup ArgTexts \cup Documents

\* The names and the handlers the embedding application registers.
UserNames == { <<"a">>, Str_center }

UserChoices ==
    { <<(<<"a">>), Handler("Ignore", "Null")>>,
      <<(<<"a">>), Handler("AddChildAndBranch", "Group")>>,
      <<Str_center, Handler("AddChild", "Group")>> }

\* The bindings that are not the constructor's.
UserBindings(bindings) ==
    { n \in DOMAIN bindings :
        n \notin DOMAIN BuiltinBindings \/ bindings[n] # BuiltinBindings[n] }

----------------------------------------------------------------------------
(* The parser. *)

NoResult == [kind |-> "none"]

\* Parser::Parser(source)
Init ==
    /\ pc = "config"
    /\ mSource \in Sources
    /\ mTagBindings = BuiltinBindings
    /\ mOffset = 0
    /\ mLine = 0
    /\ mColumn = 0
    /\ buf = <<>>
    /\ blockStart = 0
    /\ nodes = <<>>
    /\ root = 0
    /\ blocks = <<>>
    /\ result = NoResult

SetCursor(cur) ==
    /\ mOffset' = cur.mOffset
    /\ mLine' = cur.mLine
    /\ mColumn' = cur.mColumn

\* The application registers a binding before it calls parse().
AddTagBinding(name, handler) ==
    /\ pc = "config"
    /\ Cardinality(UserBindings(add_tag_binding(mTagBindings, name, handler)))
         <= MaxBindings
    /\ mTagBindings' = add_tag_binding(mTagBindings, name, handler)
    /\ UNCHANGED <<pc, mSource, mOffset, mLine, mColumn, buf, blockStart,
                   nodes, root, blocks, result>>

\* parse() is called: auto root = std::make_shared<Node>()
ParseBegin ==
    /\ pc = "config"
    /\ pc' = "scan"
    /\ nodes' = << Node("Root") >>
    /\ root' = 1
    /\ UNCHANGED <<mSource, mTagBindings, mOffset, mLine, mColumn, buf,
                   blockStart, blocks, result>>

\* The scanning loop of collect_block is at a character.
Scanning == pc = "scan" /\ can_advance(mSource, Cursor, 0)

cur_char == quick_peek(mSource, Cursor, 0)

next_char == quick_peek(mSource, Cursor, 1)

ScanFrame ==
    UNCHANGED <<pc, mSource, mTagBindings, blockStart, nodes, root, blocks,
                result>>

\* A tab at which the loop stays.
ScanTab_stuck ==
    /\ Scanning
    /\ cur_char = "\t"
    /\ UNCHANGED <<mOffset, mLine, mColumn, buf>>
    /\ ScanFrame

\* if ('\t' == cur)
ScanTab ==
    /\ Scanning
    /\ cur_char = "\t"
    /\ SetCursor(advance(Cursor, 1))
    /\ UNCHANGED buf
    /\ ScanFrame

\* A space that is appended whatever the buffer ends with.
ScanSpace_uncollapsed ==
    /\ Scanning
    /\ cur_char = " "
    /\ buf' = Append(buf, cur_char)
    /\ SetCursor(advance(Cursor, 1))
    /\ ScanFrame

\* A space that is skipped like a tab.
ScanSpace_dropped ==
    /\ Scanning
    /\ cur_char = " "
    /\ SetCursor(advance(Cursor, 1))
    /\ UNCHANGED buf
    /\ ScanFrame

\* if (' ' == cur)
ScanSpace ==
    /\ Scanning
    /\ cur_char = " "
    /\ buf' = IF ~ends_with(buf, " ") THEN Append(buf, cur_char) ELSE buf
    /\ SetCursor(advance(Cursor, 1))
    /\ ScanFrame

\* An escape that keeps both characters.
ScanEscape_both ==
    /\ Scanning
    /\ cur_char \notin {"\t", " "}
    /\ cur_char = next_char /\ "#" = cur_char
    /\ buf' = Append(Append(buf, cur_char), next_char)
    /\ SetCursor(advance(Cursor, 2))
    /\ ScanFrame

\* if (cur == next && '#' == cur)
ScanEscape ==
    /\ Scanning
    /\ cur_char \notin {"\t", " "}
    /\ cur_char = next_char /\ "#" = cur_char
    /\ buf' = Append(buf, cur_char)
    /\ SetCursor(advance(Cursor, 2))
    /\ ScanFrame

\* A line end that is put into the buffer as it is.
ScanNewline_raw ==
    /\ Scanning
    /\ cur_char \notin {"\t", " "}
    /\ ~(cur_char = next_char /\ "#" = cur_char)
    /\ cur_char \in {"\n", "\r"}
    /\ buf' = Append(buf, cur_char)
    /\ SetCursor(advance_line(advance(Cursor, 1)))
    /\ ScanFrame

\* if ('\n' == cur || '\r' == cur)
ScanNewline ==
    /\ Scanning
    /\ cur_char \notin {"\t", " "}
    /\ ~(cur_char = next_char /\ "#" = cur_char)
    /\ cur_char \in {"\n", "\r"}
    /\ buf' = IF ~ends_with(buf, " ") THEN Append(buf, " ") ELSE buf
    /\ SetCursor(advance_line(advance(Cursor, 1)))
    /\ ScanFrame

\* if ('#' != cur)
ScanChar ==
    /\ Scanning
    /\ cur_char \notin {"\t", " ", "\n", "\r"}
    /\ "#" # cur_char
    /\ buf' = Append(buf, cur_char)
    /\ SetCursor(advance(Cursor, 1))
    /\ ScanFrame

\* The scanning loop is at a '#' that does not start "##".
AtTag ==
    /\ Scanning
    /\ cur_char = "#"
    /\ next_char # "#"

\* The block (action, node) that collect_block returns, with the offsets
\* at which the call began and ended.
Block(action, node, end) ==
    [action |-> action, node |-> node, from |-> blockStart, to |-> end]

\* An AddChild that makes the child the current branch.
DoAddChild_branching(node) ==
    /\ nodes' = add_child(nodes, root, node)
    /\ root' = Len(nodes) + 1

\* case ParserAction::AddChild
DoAddChild(node) ==
    /\ nodes' = add_child(nodes, root, node)
    /\ UNCHANGED root

\* An AddChildAndBranch that leaves the current branch where it is.
DoAddChildAndBranch_stay(node) ==
    /\ nodes' = add_child(nodes, root, node)
    /\ UNCHANGED root

\* case ParserAction::AddChildAndBranch
DoAddChildAndBranch(node) ==
    /\ nodes' = add_child(nodes, root, node)
    /\ root' = Len(nodes) + 1

\* A return of the text that steps over the '#'.
BlockText_consuming ==
    /\ AtTag
    /\ trim(buf) # <<>>
    /\ DoAddChild(NodeText(trim(buf)))
    /\ blocks' = Append(blocks, Block("AddChild", NodeText(trim(buf)), mOffset))
    /\ buf' = <<>>
    /\ blockStart' = mOffset
    /\ SetCursor(advance(Cursor, 1))
    /\ UNCHANGED <<pc, mSource, mTagBindings, result>>

\* The text before a tag: collect_block returns it and leaves the '#'.
BlockText ==
    /\ AtTag
    /\ trim(buf) # <<>>
    /\ DoAddChild(NodeText(trim(buf)))
    /\ blocks' = Append(blocks, Block("AddChild", NodeText(trim(buf)), mOffset))
    /\ buf' = <<>>
    /\ blockStart' = mOffset
    /\ UNCHANGED <<pc, mSource, mTagBindings, mOffset, mLine, mColumn,
                   result>>

\* collect_block goes on to collect_tag.
TagStep == AtTag /\ trim(buf) = <<>>

\* A parse() that records the error and goes on with the next block.
Return_and_continue(res) ==
    /\ pc' = IF res.kind = "Node" THEN "done" ELSE "scan"
    /\ result' = res

\* parse() returns.
Return(res) ==
    /\ pc' = "done"
    /\ result' = res

\* collect_tag returns a SyntaxError, which parse() returns.
TagSyntaxError(tag_res) ==
    /\ tag_res.error
    /\ SetCursor(tag_res.cur)
    /\ Return([kind |-> "SyntaxError", message |-> tag_res.message,
               location |-> tag_res.location])
    /\ buf' = <<>>
    /\ UNCHANGED <<mSource, mTagBindings, blockStart, nodes, root, blocks>>

\* tag_to_node returns a TagError, which parse() returns.
TagUnknown(tag_res, node_res) ==
    /\ ~tag_res.error
    /\ node_res.error
    /\ SetCursor(tag_res.cur)
    /\ Return([kind |-> "TagError", message |-> node_res.message,
               tag |-> node_res.tag])
    /\ buf' = <<>>
    /\ UNCHANGED <<mSource, mTagBindings, blockStart, nodes, root, blocks>>

\* An End that is ignored at the top level.
DoEnd_lenient(node) ==
    IF ~has_value(nodes[root].parent)
    THEN UNCHANGED <<pc, nodes, root, result>>
    ELSE /\ root' = value(nodes[root].parent)
         /\ UNCHANGED <<pc, nodes, result>>

\* case ParserAction::End
DoEnd(node) ==
    IF ~has_value(nodes[root].parent)
    THEN /\ Return([kind |-> "NodeError",
                    message |-> "Unexpected branch return at root leve",
                    node |-> node])
         /\ UNCHANGED <<nodes, root>>
    ELSE /\ root' = value(nodes[root].parent)
         /\ UNCHANGED <<pc, nodes, result>>

\* default: (ParserAction::Ignore)
DoIgnore == UNCHANGED <<pc, nodes, root, result>>

\* The tag resolves to a block with this action, and parse() switches on it.
TagBlock(action, tag_res, node_res) ==
    /\ ~tag_res.error
    /\ ~node_res.error
    /\ node_res.action = action
    /\ SetCursor(tag_res.cur)
    /\ buf' = <<>>
    /\ blockStart' = tag_res.cur.mOffset
    /\ blocks' = Append(blocks, Block(action, node_res.node,
                                      tag_res.cur.mOffset))
    /\ UNCHANGED <<mSource, mTagBindings>>

TagAddChild(tag_res, node_res) ==
    /\ TagBlock("AddChild", tag_res, node_res)
    /\ DoAddChild(node_res.node)
    /\ UNCHANGED <<pc, result>>

TagAddChildAndBranch(tag_res, node_res) ==
    /\ TagBlock("AddChildAndBranch", tag_res, node_res)
    /\ DoAddChildAndBranch(node_res.node)
    /\ UNCHANGED <<pc, result>>

TagEnd(tag_res, node_res) ==
    /\ TagBlock("End", tag_res, node_res)
    /\ DoEnd(node_res.node)

\* An Ignore that attaches the node all the same.
TagIgnore_attach(tag_res, node_res) ==
    /\ TagBlock("Ignore", tag_res, node_res)
    /\ DoAddChild(node_res.node)
    /\ UNCHANGED <<pc, result>>

TagIgnore(tag_res, node_res) ==
    /\ TagBlock("Ignore", tag_res, node_res)
    /\ DoIgnore

\* collect_block calls collect_tag and tag_to_node, and parse() acts on
\* what they return.
Tag ==
    /\ TagStep
    /\ \E tag_res \in {collect_tag(mSource, Cursor)} :
          \/ TagSyntaxError(tag_res)
          \/ /\ ~tag_res.error
             /\ \E node_res \in {tag_to_node(mTagBindings, tag_res.tag)} :
                   \/ TagUnknown(tag_res, node_res)
                   \/ TagAddChild(tag_res, node_res)
                   \/ TagAddChildAndBranch(tag_res, node_res)
                   \/ TagEnd(tag_res, node_res)
                   \/ TagIgnore(tag_res, node_res)

\* The input is exhausted with text in the buffer: collect_block returns it,
\* parse() attaches it, leaves its loop and returns the branch.
TextAtEnd ==
    /\ pc = "scan"
    /\ ~can_advance(mSource, Cursor, 0)
    /\ trim(buf) # <<>>
    /\ DoAddChild(NodeText(trim(buf)))
    /\ blocks' = Append(blocks, Block("AddChild", NodeText(trim(buf)), mOffset))
    /\ buf' = <<>>
    /\ blockStart' = mOffset
    /\ Return([kind |-> "Node", node |-> root])
    /\ UNCHANGED <<mSource, mTagBindings, mOffset, mLine, mColumn>>

\* A parse() that returns the node it created first.
NothingLeft_root ==
    /\ pc = "scan"
    /\ ~can_advance(mSource, Cursor, 0)
    /\ trim(buf) = <<>>
    /\ buf' = <<>>
    /\ Return([kind |-> "Node", node |-> 1])
    /\ UNCHANGED <<mSource, mTagBindings, mOffset, mLine, mColumn,
                   blockStart, nodes, root, blocks>>

\* The input is exhausted with nothing to return: parse() returns the branch.
NothingLeft ==
    /\ pc = "scan"
    /\ ~can_advance(mSource, Cursor, 0)
    /\ trim(buf) = <<>>
    /\ buf' = <<>>
    /\ Return([kind |-> "Node", node |-> root])
    /\ UNCHANGED <<mSource, mTagBindings, mOffset, mLine, mColumn,
                   blockStart, nodes, root, blocks>>

Next ==
    \/ \E choice \in UserChoices : AddTagBinding(choice[1], choice[2])
    \/ ParseBegin
    \/ ScanTab
    \/ ScanSpace
    \/ ScanEscape
    \/ ScanNewline
    \/ ScanChar
    \/ BlockText
    \/ Tag
    \/ TextAtEnd
    \/ NothingLeft

Spec == Init /\ [][Next]_vars

\* The steps of parse(): once called, it runs until it returns.
ParseStep ==
    \/ ScanTab
    \/ ScanSpace
    \/ ScanEscape
    \/ ScanNewline
    \/ ScanChar
    \/ BlockText
    \/ Tag
    \/ TextAtEnd
    \/ NothingLeft

\* parse() is one synchronous call: while it can take a step it takes one.
LiveSpec == Spec /\ WF_vars(ParseStep)

----------------------------------------------------------------------------
(* What the properties below speak of. *)

ErrorKinds == {"SyntaxError", "TagError", "NodeError"}

LastBlock(bs) == bs[Len(bs)]

\* A block has just been returned by the step.
BlockReturned == Len(blocks') = Len(blocks) + 1

Count(bs, action) ==
    Cardinality({ i \in 1..Len(bs) : bs[i].action = action })

\* The nodes of the tree below node n, n included.
RECURSIVE Subtree(_)
Subtree(n) ==
    {n} \cup UNION { Subtree(nodes[n].children[k]) :
                        k \in 1..Len(nodes[n].children) }

\* The longest run of identifier characters of src that starts at offset i.
IdentRun(src, i) ==
    LET k == CHOOSE k \in 0..(Len(src) - i) :
                /\ \A j \in 1..k : is_tag_char(src[i + j])
                /\ i + k = Len(src) \/ ~is_tag_char(src[i + k + 1])
    IN SubSeq(src, i + 1, i + k)

----------------------------------------------------------------------------
(* C1. Branch balance: when parse() returns a node and as many End blocks  *)
(* as AddChildAndBranch blocks were processed, the node is the first one,  *)
(* of type Root and without parent, and every other node of the tree sits  *)
(* in its parent's child list at the position its sibling index gives.     *)
BranchBalance ==
    ( /\ pc = "done"
      /\ result.kind = "Node"
      /\ Count(blocks, "AddChildAndBranch") = Count(blocks, "End") )
    => /\ result.node = 1
       /\ nodes[1].type = "Root"
       /\ ~has_value(nodes[1].parent)
       /\ \A i \in Subtree(result.node) \ {result.node} :
             /\ has_value(nodes[i].parent)
             /\ has_value(nodes[i].num)
             /\ LET siblings == nodes[value(nodes[i].parent)].children
                    k == value(nodes[i].num) + 1
                IN k \in 1..Len(siblings) /\ siblings[k] = i

\* A balanced document with a branch inside a branch and a second child.
BranchBalanceWitness ==
    /\ pc = "done"
    /\ result.kind = "Node"
    /\ Count(blocks, "AddChildAndBranch") = Count(blocks, "End")
    /\ \E i \in 2..Len(nodes) :
          /\ value(nodes[i].parent) # 1
          /\ value(nodes[i].num) > 0

(* C2. Unbalanced end: a step that processes an End block while the        *)
(* current branch has no parent makes parse() return a NodeError carrying  *)
(* the block's node; with a parent, the branch becomes that parent and     *)
(* parsing goes on. Parsing "#end" alone yields a NodeError.               *)
UnbalancedEnd ==
    /\ [](mSource = <<"#">> \o Str_end /\ pc = "done"
             => result.kind = "NodeError")
    /\ [][ (BlockReturned /\ LastBlock(blocks').action = "End") =>
             IF ~has_value(nodes[root].parent)
             THEN /\ pc' = "done"
                  /\ result'.kind = "NodeError"
                  /\ result'.node = LastBlock(blocks').node
                  /\ nodes' = nodes
             ELSE /\ root' = value(nodes[root].parent)
                  /\ pc' = "scan"
                  /\ result' = NoResult
                  /\ nodes' = nodes ]_vars

\* An End has closed a branch and a later End met the top level.
UnbalancedEndWitness ==
    /\ result.kind = "NodeError"
    /\ \E i \in 1..(Len(blocks) - 1) :
          blocks[i].action = "End" /\ blocks[i + 1].action = "End"

(* C3. Unknown tag: at a '#' whose tag is well-formed and whose name (the  *)
(* identifier characters that follow the '#') has no binding, parse()      *)
(* returns a TagError whose tag has that name, and no block and no node    *)
(* is produced; "#nonexistent" gives a TagError named "nonexistent".       *)
UnknownTag ==
    /\ [](mSource = UnknownDocument /\ pc = "done"
             => /\ result.kind = "TagError"
                /\ result.tag.name = Tail(UnknownDocument))
    /\ [][ ( /\ TagStep
             /\ ~collect_tag(mSource, Cursor).error
             /\ IdentRun(mSource, mOffset + 1) \notin DOMAIN mTagBindings )
           => /\ pc' = "done"
              /\ result'.kind = "TagError"
              /\ result'.tag.name = IdentRun(mSource, mOffset + 1)
              /\ nodes' = nodes
              /\ blocks' = blocks ]_vars

\* A TagError for a tag that follows a text and has arguments.
UnknownTagWitness ==
    /\ result.kind = "TagError"
    /\ result.tag.name = <<"a">>
    /\ result.tag.arguments # <<>>

(* C4. Errors are terminal and the first one wins: the step that yields a  *)
(* SyntaxError, TagError or NodeError is the last step of parse(), no step *)
(* follows a return, and in the documents with several faulty tags the     *)
(* error is that of the first faulty tag.                                  *)
ErrorsTerminal ==
    /\ [][pc # "done"]_vars
    /\ [][result'.kind \in ErrorKinds => pc' = "done" /\ nodes' = nodes]_vars
    /\ [](pc = "done" /\ mTagBindings = BuiltinBindings =>
            /\ mSource = FaultyDocument =>
                  /\ result.kind = "SyntaxError"
                  /\ mOffset < Len(mSource)
                  /\ mSource[mOffset] = "b"
            /\ mSource = UnknownFirstDocument =>
                  result.kind = "TagError" /\ result.tag.name = <<"a">>
            /\ mSource = EndFirstDocument => result.kind = "NodeError")

\* An error was returned with faulty tags left unread.
ErrorsTerminalWitness ==
    /\ pc = "done"
    /\ result.kind = "SyntaxError"
    /\ mSource = FaultyDocument

----------------------------------------------------------------------------
(* Text blocks and the part of the source each was collected from. *)

TextBlocks == { k \in 1..Len(blocks) : blocks[k].node.type = "Text" }

BlockSpan(b) == SubSeq(mSource, b.from + 1, b.to)

BlockTextOf(b) == value(b.node.text)

HashCount(s) == Len(SelectSeq(s, LAMBDA c : c = "#"))

\* The n characters of src from offset i on are a whole run of '#'.
HashRun(src, i, n) ==
    /\ n >= 1
    /\ i + n <= Len(src)
    /\ \A j \in 1..n : src[i + j] = "#"
    /\ i = 0 \/ src[i] # "#"
    /\ i + n = Len(src) \/ src[i + n + 1] # "#"

\* The even runs of '#' of the source, as <<offset, length>>.
EvenRuns ==
    { r \in (0..Len(mSource)) \X (1..Len(mSource)) :
        r[2] % 2 = 0 /\ HashRun(mSource, r[1], r[2]) }

\* s ends with exactly n '#'.
EndsWithHashes(s, n) ==
    /\ Len(s) >= n
    /\ \A j \in 1..n : s[Len(s) - n + j] = "#"
    /\ Len(s) = n \/ s[Len(s) - n] # "#"

\* A Text block was collected across the run r, and its text has one '#'
\* for every two of its part of the source.
EscapedInText(r) ==
    \E k \in TextBlocks :
        /\ blocks[k].from <= r[1]
        /\ r[1] + r[2] <= blocks[k].to
        /\ 2 * HashCount(BlockTextOf(blocks[k]))
             = HashCount(BlockSpan(blocks[k]))

\* The scanning loop has just passed the run r: the buffer ends with half
\* as many '#', and no block was returned on the way.
EscapedInBuffer(r) ==
    (pc = "scan" /\ mOffset = r[1] + r[2])
        => blockStart <= r[1] /\ EndsWithHashes(buf, r[2] \div 2)

(* C5 as stated. Escape: every even run of '#' that parse() has come to    *)
(* yields half as many '#' in a Text node, and no tag and no error.        *)
EscapeAnywhere ==
    \A r \in EvenRuns :
        /\ EscapedInBuffer(r)
        /\ ( /\ pc = "done"
             /\ \/ mOffset > r[1]
                \/ /\ mOffset = r[1]
                   /\ result.kind = "SyntaxError"
                   /\ result.message = "Unexpected token" )
           => EscapedInText(r)

(* C5. Escape: every even run of '#' that the scanning loop of             *)
(* collect_block has come to, which leaves out the runs in the argument    *)
(* list of a tag, yields half as many '#' in a Text node, and no tag and   *)
(* no error.                                                               *)
EscapeInText ==
    \A r \in EvenRuns :
        /\ EscapedInBuffer(r)
        /\ (pc = "done" /\ mOffset > r[1]) => EscapedInText(r)

\* A run of four '#' and a run of six have become "##" and "###".
EscapeInTextWitness ==
    /\ pc = "done"
    /\ \E r \in EvenRuns : r[2] = 6 /\ EscapedInText(r)
    /\ \E r \in EvenRuns : r[2] = 4 /\ EscapedInText(r)

----------------------------------------------------------------------------
(* The white space of a text. *)

IsBlank(c) == c \in {" ", "\t", "\n", "\r"}

\* The positions of the characters of s that are not white space.
Solid(s) == SelectSeq([i \in 1..Len(s) |-> i], LAMBDA i : ~IsBlank(s[i]))

\* Between the positions p and q of s stands white space that counts:
\* any at all, or some that is not a tab.
Gap(s, p, q, tabs_count) ==
    \E j \in (p + 1)..(q - 1) : tabs_count \/ s[j] # "\t"

\* The first k solid characters of s, with one space for every gap.
RECURSIVE Collapsed(_, _, _, _)
Collapsed(s, at, k, tabs_count) ==
    IF k = 0
    THEN <<>>
    ELSE Collapsed(s, at, k - 1, tabs_count)
         \o (IF k > 1 /\ Gap(s, at[k - 1], at[k], tabs_count)
             THEN <<" ">> ELSE <<>>)
         \o << s[at[k]] >>

Collapse(s, tabs_count) == Collapsed(s, Solid(s), Len(Solid(s)), tabs_count)

\* The Text blocks collected from a part of the source without '#'.
PlainTextBlocks ==
    { k \in TextBlocks : HashCount(BlockSpan(blocks[k])) = 0 }

(* C6 as stated. Whitespace collapse: every run of spaces, tabs and        *)
(* newlines between two other characters of a text is one space in the     *)
(* Text node, runs of tabs alone included.                                 *)
WhitespaceCollapseWithTabs ==
    \A k \in PlainTextBlocks :
        BlockTextOf(blocks[k]) = Collapse(BlockSpan(blocks[k]), TRUE)

(* C6. Whitespace collapse: every run of spaces, tabs and newlines between *)
(* two other characters of a text that holds a space or a newline is one   *)
(* space in the Text node; a run of tabs alone leaves nothing.             *)
WhitespaceCollapse ==
    \A k \in PlainTextBlocks :
        BlockTextOf(blocks[k]) = Collapse(BlockSpan(blocks[k]), FALSE)

\* "a \t\n b\t\tc\n\n\td" has become "a bc d".
WhitespaceCollapseWitness ==
    /\ pc = "done"
    /\ \E k \in PlainTextBlocks :
          /\ BlockSpan(blocks[k]) = WhitespaceDocument
          /\ BlockTextOf(blocks[k]) = <<"a", " ", "b", "c", " ", "d">>

----------------------------------------------------------------------------
(* Tags written with an argument list. *)

PlainWords == { <<"a">>, <<"b">> }

\* "#name(w1,...,wk)" for the names and the lists of plain words generated.
PlainTagTexts ==
    { [text |-> <<"#">> \o name \o <<"(">> \o Join(l) \o <<")">>,
       name |-> name, arguments |-> l] :
        name \in { Str_center, Str_end, <<"a">>, <<>> },
        l \in { l \in ArgLists(MaxArgs) :
                  l # <<>> /\ \A i \in 1..Len(l) : l[i] \in PlainWords } }

(* C7. Argument order: when the source is "#name(a1,...,ak)" with a bound  *)
(* name and plain arguments, the tag of the node of the one block has that *)
(* name and the arguments a1..ak in that order; "#center(a,b,c)" gives     *)
(* a, b, c.                                                                *)
ArgumentOrder ==
    pc = "done" =>
        /\ \A t \in PlainTagTexts :
              (mSource = t.text /\ t.name \in DOMAIN mTagBindings) =>
                  /\ Len(blocks) = 1
                  /\ value(blocks[1].node.tag).name = t.name
                  /\ value(blocks[1].node.tag).arguments = t.arguments
        /\ mSource = ArgumentsDocument =>
              /\ Len(blocks) = 1
              /\ value(blocks[1].node.tag).name = Str_center
              /\ value(blocks[1].node.tag).arguments
                    = << <<"a">>, <<"b">>, <<"c">> >>

\* "#center(a,b,c)" has been parsed to a node of the tree.
ArgumentOrderWitness ==
    /\ pc = "done"
    /\ mSource = ArgumentsDocument
    /\ result.kind = "Node"
    /\ Len(nodes) = 2
    /\ Len(value(nodes[2].tag).arguments) = 3

\* The character at position q of an argument list cannot stand there: it
\* is no delimiter and no identifier character, and if it is white space it
\* follows an argument.
Offends(src, q) ==
    /\ src[q] \notin {",", ")"}
    /\ ~is_tag_char(src[q])
    /\ isspace(src[q]) => is_tag_char(src[q - 1])

\* The positions after the '(' at position open where the argument list
\* ends: at a ')' or at a character that cannot stand there.
ListEnds(src, open) ==
    { q \in (open + 1)..Len(src) : src[q] = ")" \/ Offends(src, q) }

Least(S) == CHOOSE q \in S : \A r \in S : q <= r

(* C8. Malformed argument list: at a tag whose name is followed by '(',    *)
(* bound or not, if the list reaches a character that can not stand there  *)
(* before its ')' parse() returns the SyntaxError "Unexpected token", and  *)
(* if the input ends before the ')' the SyntaxError "Unexpected EOF"; the  *)
(* error has the line and column of the cursor, which stands at that       *)
(* character or at the end.                                                *)
MalformedArguments ==
    /\ [](result.kind = "SyntaxError" =>
            /\ result.location = [line |-> mLine, column |-> mColumn]
            /\ IF mOffset = Len(mSource)
               THEN result.message = "Unexpected EOF"
               ELSE /\ result.message = "Unexpected token"
                    /\ mOffset < Len(mSource)
                    /\ mSource[mOffset + 1] \notin {",", ")"})
    /\ [][ LET open == mOffset + 2 + Len(IdentRun(mSource, mOffset + 1))
               ends == ListEnds(mSource, open)
               at   == IF ends = {} THEN Len(mSource) + 1 ELSE Least(ends)
           IN ( /\ TagStep
                /\ open <= Len(mSource)
                /\ mSource[open] = "("
                /\ at > Len(mSource) \/ mSource[at] # ")" )
              => /\ pc' = "done"
                 /\ result'.kind = "SyntaxError"
                 /\ result'.message = IF at > Len(mSource)
                                      THEN "Unexpected EOF"
                                      ELSE "Unexpected token"
                 /\ mOffset' = at - 1
                 /\ result'.location =
                       [line |-> mLine, column |-> mColumn + (at - 1 - mOffset)]
         ]_vars

\* "#center(a,b" has ended in "Unexpected EOF" at column 11.
MalformedArgumentsWitness ==
    /\ mSource = UnclosedDocument
    /\ result.kind = "SyntaxError"
    /\ result.message = "Unexpected EOF"
    /\ result.location = [line |-> 0, column |-> 11]

----------------------------------------------------------------------------
(* The trees the tests expect (tests/basic-document.cpp). *)

Tree(type, children) == [type |-> type, text |-> nullopt, children |-> children]

TextLeaf(text) == [type |-> "Text", text |-> Some(text), children |-> <<>>]

\* compare_nodes(n1, n2), n1 a node of the tree and n2 an expected tree
RECURSIVE compare_nodes(_, _)
compare_nodes(n1, n2) ==
    /\ nodes[n1].type = n2.type
    /\ nodes[n1].text = n2.text
    /\ Len(nodes[n1].children) = Len(n2.children)
    /\ \A i \in 1..Len(nodes[n1].children) :
          compare_nodes(nodes[n1].children[i], n2.children[i])

\* "THIS IS THE TITLE"
TitleText == SubSeq(TitleDocument, 11, 27)

\* "Hello there, this is some text!"
HelloText == SubSeq(SOURCE, 45, 75)

\* "And this is a paragraph!"
ParagraphText == SubSeq(SOURCE, 90, 113)

\* Root -> [LineBreak, Center -> [Text]]
TitleTree ==
    Tree("Root", << Tree("LineBreak", <<>>),
                    Tree("Center", << TextLeaf(TitleText) >>) >>)

\* mroot of main()
mroot ==
    Tree("Root",
         << Tree("LineBreak", <<>>),
            Tree("Center", << TextLeaf(TitleText) >>),
            Tree("LineBreak", <<>>),
            Tree("Justify",
                 << TextLeaf(HelloText),
                    Tree("LineBreak", <<>>),
                    Tree("Paragraph", << TextLeaf(ParagraphText) >>) >>) >>)

(* C9. Document example: with the built-in binding of "center", the        *)
(* documents of line breaks, branch tags, text lines and matching "#end"   *)
(* parse to the trees that mirror them, compared by type, text and child   *)
(* count: the title document to Root -> [LineBreak, Center -> [Text]], and *)
(* SOURCE to mroot, where the line ending in " #" gives the Text without   *)
(* the space and then a LineBreak.                                         *)
DocumentExample ==
    ( /\ pc = "done"
      /\ mTagBindings[Str_center] = BuiltinBindings[Str_center] )
    => /\ mSource = TitleDocument =>
             result.kind = "Node" /\ compare_nodes(result.node, TitleTree)
       /\ mSource = SOURCE =>
             result.kind = "Node" /\ compare_nodes(result.node, mroot)

\* SOURCE has been parsed, the text line ending in " #" included.
DocumentExampleWitness ==
    /\ pc = "done"
    /\ mSource = SOURCE
    /\ result.kind = "Node"
    /\ \E i \in 1..(Len(nodes) - 1) :
          /\ nodes[i].text = Some(HelloText)
          /\ nodes[i + 1].type = "LineBreak"
          /\ nodes[i + 1].parent = nodes[i].parent

----------------------------------------------------------------------------
(* Plain text (tests/random-text.cpp). *)

\* A text of letters, digits and spaces, and not empty.
PlainText(s) ==
    /\ s # <<>>
    /\ \A i \in 1..Len(s) : iswalnum(s[i]) \/ s[i] = " "

\* No space at either end and no two spaces in a row.
SingleSpaced(s) ==
    /\ s[1] # " "
    /\ s[Len(s)] # " "
    /\ \A i \in 1..(Len(s) - 1) : ~(s[i] = " " /\ s[i + 1] = " ")

\* expected of main(): a Root whose one child is the Text of the source
RoundTrip ==
    /\ result.kind = "Node"
    /\ compare_nodes(result.node, Tree("Root", << TextLeaf(mSource) >>))

(* C10 as stated. Plain text round trip: every source of letters, digits   *)
(* and spaces parses to a Root with one child, a Text node whose text is   *)
(* the source.                                                             *)
PlainTextRoundTrip == (pc = "done" /\ PlainText(mSource)) => RoundTrip

(* C10. Plain text round trip: every source of letters, digits and spaces  *)
(* that neither begins nor ends with a space and has no two spaces in a    *)
(* row parses to a Root with one child, a Text node whose text is the      *)
(* source.                                                                 *)
SingleSpacedRoundTrip ==
    (pc = "done" /\ PlainText(mSource) /\ SingleSpaced(mSource)) => RoundTrip

\* "ab1 Z9 x" has come back as it was.
SingleSpacedRoundTripWitness ==
    /\ pc = "done"
    /\ mSource = PlainDocument
    /\ RoundTrip

----------------------------------------------------------------------------
(* The branches that are open. *)

\* The nodes opened and not yet closed by the blocks bs[i..], innermost
\* last, when `stack` are those of the blocks before and n nodes exist.
\* Every attaching block makes the next node.
RECURSIVE OpenBranchesFrom(_, _, _, _)
OpenBranchesFrom(bs, i, stack, n) ==
    IF i > Len(bs) THEN stack
    ELSE IF bs[i].action = "AddChildAndBranch"
    THEN OpenBranchesFrom(bs, i + 1, Append(stack, n + 1), n + 1)
    ELSE IF bs[i].action = "AddChild"
    THEN OpenBranchesFrom(bs, i + 1, stack, n + 1)
    ELSE IF bs[i].action = "End" /\ Len(stack) > 1
    THEN OpenBranchesFrom(bs, i + 1, SubSeq(stack, 1, Len(stack) - 1), n)
    ELSE OpenBranchesFrom(bs, i + 1, stack, n)

OpenBranches == OpenBranchesFrom(blocks, 1, <<1>>, 1)

(* C11. Open branches at end of input: when the input is exhausted while   *)
(* k >= 1 branches opened by AddChildAndBranch are not closed, the step    *)
(* makes parse() return a node and no error, and the node is the branch    *)
(* opened last among them, which has a parent and is not the Root.         *)
OpenBranchesAtEnd ==
    [][ ( /\ pc = "scan"
          /\ ~can_advance(mSource, Cursor, 0)
          /\ Count(blocks, "AddChildAndBranch") - Count(blocks, "End") >= 1 )
        => /\ pc' = "done"
           /\ result'.kind = "Node"
           /\ Len(OpenBranches) =
                 1 + Count(blocks, "AddChildAndBranch") - Count(blocks, "End")
           /\ result'.node = OpenBranches[Len(OpenBranches)]
           /\ result'.node # 1
           /\ nodes'[result'.node].type # "Root"
           /\ has_value(nodes'[result'.node].parent)
           /\ value(nodes'[result'.node].parent)
                 = OpenBranches[Len(OpenBranches) - 1] ]_vars

\* Of the two branches opened, the one left open has been returned.
OpenBranchesAtEndWitness ==
    /\ pc = "done"
    /\ mSource = OpenDocument
    /\ result.kind = "Node"
    /\ nodes[result.node].type = "Right"
    /\ Count(blocks, "End") = 1

----------------------------------------------------------------------------
(* C12. Registry extension and shadowing: registering a handler for a     *)
(* name, bound or not, built-in or not, makes it the binding of the name   *)
(* and leaves the other names as they were; the registry does not change   *)
(* once parse() has been called; and every tag with a bound name gives a   *)
(* block whose action and node kind are those of the handler bound to the  *)
(* name, the one registered last.                                          *)
RegistryShadowing ==
    /\ [](pc = "config" =>
            \A c \in UserChoices :
               LET new == add_tag_binding(mTagBindings, c[1], c[2])
               IN /\ DOMAIN new = DOMAIN mTagBindings \cup {c[1]}
                  /\ new[c[1]] = c[2]
                  /\ \A n \in DOMAIN mTagBindings \ {c[1]} :
                        new[n] = mTagBindings[n])
    /\ [][ \A c \in UserChoices :
              AddTagBinding(c[1], c[2]) => mTagBindings'[c[1]] = c[2] ]_vars
    /\ [][ pc # "config" => mTagBindings' = mTagBindings ]_vars
    /\ [][ ( /\ TagStep
             /\ ~collect_tag(mSource, Cursor).error
             /\ IdentRun(mSource, mOffset + 1) \in DOMAIN mTagBindings )
           => LET handler == mTagBindings[IdentRun(mSource, mOffset + 1)]
              IN /\ BlockReturned
                 /\ LastBlock(blocks').action = handler.action
                 /\ LastBlock(blocks').node.type = handler.type ]_vars

\* "#center" was given a handler of the application's, and the tree has a
\* node of its kind that is no branch.
RegistryShadowingWitness ==
    /\ pc = "done"
    /\ mTagBindings[Str_center] = Handler("AddChild", "Group")
    /\ \E i \in 1..Len(blocks) :
          /\ blocks[i].action = "AddChild"
          /\ blocks[i].node.type = "Group"
          /\ value(blocks[i].node.tag).name = Str_center

----------------------------------------------------------------------------
(* The built-in tags. *)

\* The kind of node named after each branching tag; `Numebrs` is how the
\* enumeration spells the kind of "numbers".
BranchKinds ==
    (Str_left      :> "Left") @@
    (Str_center    :> "Center") @@
    (Str_right     :> "Right") @@
    (Str_justify   :> "Justify") @@
    (Str_paragraph :> "Paragraph") @@
    (Str_numbers   :> "Numebrs") @@
    (Str_bullets   :> "Bullets") @@
    (Str_item      :> "Item")

\* What a tag of this name is to give when the application bound nothing.
BuiltinOutcome(name) ==
    IF name = Str_end THEN Handler("End", "Null")
    ELSE IF name \in DOMAIN BranchKinds
    THEN Handler("AddChildAndBranch", BranchKinds[name])
    ELSE IF name = <<>> THEN Handler("AddChild", "LineBreak")
    ELSE Handler("TagError", "Null")

\* Names that are bound, and names close to them that are not.
ProbeNames ==
    DOMAIN BranchKinds \cup
    { Str_end, <<>>, <<"a">>, <<"E", "n", "d">>, <<"e", "n", "d", "s">>,
      <<"e", "n">>, <<"_">>, <<"L", "e", "f", "t">>, Tail(UnknownDocument) }

ProbeTags ==
    { [name |-> name, location |-> [line |-> 0, column |-> 1],
       arguments |-> arguments] :
         name \in ProbeNames, arguments \in { <<>>, << <<"a">> >> } }

(* C13. Built-in bindings: with no binding of the application's,           *)
(* tag_to_node gives (End, Null) for "end", (AddChildAndBranch, the kind   *)
(* named after the tag) for left, center, right, justify, paragraph,       *)
(* numbers, bullets and item, (AddChild, LineBreak) for the empty name and *)
(* a TagError "Unknown tag" with the tag for every other name; the node of *)
(* a hit carries the tag, and so does the block of every tag parsed.       *)
BuiltinBindingsTable ==
    /\ [](mTagBindings = BuiltinBindings =>
            \A tag \in ProbeTags :
               LET res  == tag_to_node(mTagBindings, tag)
                   want == BuiltinOutcome(tag.name)
               IN IF want.action = "TagError"
                  THEN /\ res.error
                       /\ res.message = "Unknown tag"
                       /\ res.tag = tag
                  ELSE /\ ~res.error
                       /\ res.action = want.action
                       /\ res.node.type = want.type
                       /\ res.node.tag = Some(tag)
                       /\ res.node.children = <<>>
                       /\ res.node.parent = nullopt)
    /\ [][ ( /\ mTagBindings = BuiltinBindings
             /\ TagStep
             /\ ~collect_tag(mSource, Cursor).error )
           => LET tag  == collect_tag(mSource, Cursor).tag
                  want == BuiltinOutcome(tag.name)
              IN IF want.action = "TagError"
                 THEN /\ result'.kind = "TagError"
                      /\ result'.tag = tag
                      /\ blocks' = blocks
                 ELSE /\ BlockReturned
                      /\ LastBlock(blocks').action = want.action
                      /\ LastBlock(blocks').node.type = want.type
                      /\ LastBlock(blocks').node.tag = Some(tag) ]_vars

\* The nested document was parsed with the built-in bindings alone, and
\* the tree has the Item of an "#item" and the LineBreak of a bare "#".
BuiltinBindingsTableWitness ==
    /\ pc = "done"
    /\ mSource = NestedDocument
    /\ mTagBindings = BuiltinBindings
    /\ result.kind = "Node"
    /\ \E i, j \in 2..Len(nodes) :
          /\ nodes[i].type = "Item"
          /\ nodes[i].tag # nullopt
          /\ value(nodes[i].tag).name = Str_item
          /\ nodes[j].type = "LineBreak"
          /\ value(nodes[j].tag).name = <<>>

----------------------------------------------------------------------------
(* The bare '#'. *)

\* The step attaches one LineBreak to the current branch, which stays the
\* current branch, and parse() goes on.
LineBreakAttached ==
    /\ BlockReturned
    /\ LastBlock(blocks').action = "AddChild"
    /\ Len(nodes') = Len(nodes) + 1
    /\ nodes'[Len(nodes')].type = "LineBreak"
    /\ nodes'[Len(nodes')].parent = Some(root)
    /\ nodes'[root].children = Append(nodes[root].children, Len(nodes'))
    /\ root' = root
    /\ pc' = "scan"
    /\ result' = NoResult

(* C14 as stated. Bare '#' line break: a '#' followed by any character     *)
(* that is no identifier character, '#' and '(' included, or by the end of *)
(* input, gives one LineBreak attached with AddChild to the current branch *)
(* and no error. The step looked at is the one that handles the '#', the   *)
(* text before it having been returned.                                    *)
BareHashAnyFollower ==
    [][ ( /\ Scanning
          /\ cur_char = "#"
          /\ ~is_tag_char(next_char)
          /\ trim(buf) = <<>> )
        => LineBreakAttached ]_vars

(* C14. Bare '#' line break: a '#' followed by a character that is no      *)
(* identifier character and neither '#' nor '(', or by the end of input,   *)
(* gives one LineBreak attached with AddChild to the current branch and no *)
(* error. "##" is the escape and "#(" opens an argument list.              *)
BareHashLineBreak ==
    [][ ( /\ Scanning
          /\ cur_char = "#"
          /\ ~is_tag_char(next_char)
          /\ next_char \notin {"#", "("}
          /\ trim(buf) = <<>> )
        => LineBreakAttached ]_vars

\* A '#' at the end of the input has given a LineBreak inside a branch.
BareHashLineBreakWitness ==
    /\ pc = "done"
    /\ result.kind = "Node"
    /\ Len(mSource) > 1
    /\ mSource[Len(mSource)] = "#"
    /\ mSource[Len(mSource) - 1] # "#"
    /\ nodes[Len(nodes)].type = "LineBreak"
    /\ nodes[Len(nodes)].parent # Some(1)

----------------------------------------------------------------------------
(* White space around arguments. *)

\* The word without its white space.
Strip(w) == SelectSeq(w, LAMBDA c : ~isspace(c))

\* "#name(w1,...,wk)" for the generated lists of words none of which is
\* empty, with the identifiers of the words and whether white space
\* follows one of them.
SpacedTagTexts ==
    { [text |-> <<"#">> \o name \o <<"(">> \o Join(l) \o <<")">>,
       name |-> name,
       arguments |-> [i \in 1..Len(l) |-> Strip(l[i])],
       trailing |-> \E i \in 1..Len(l) : isspace(l[i][Len(l[i])])] :
        name \in { Str_center, Str_end, <<"a">>, <<>> },
        l \in { l \in ArgLists(MaxArgs) :
                  l # <<>> /\ \A i \in 1..Len(l) : l[i] # <<>> } }

SpacedTagSources == { t.text : t \in SpacedTagTexts }

\* The one tag of the source was parsed and has these arguments.
ParsedWith(arguments) ==
    /\ result.kind # "SyntaxError"
    /\ Len(blocks) = 1
    /\ value(blocks[1].node.tag).arguments = arguments

\* The parse ended at white space inside the argument list.
StoppedAtSpace ==
    /\ result.kind = "SyntaxError"
    /\ result.message = "Unexpected token"
    /\ blocks = <<>>
    /\ mOffset < Len(mSource)
    /\ isspace(mSource[mOffset + 1])
    /\ is_tag_char(mSource[mOffset])

(* C15 as stated. Argument trimming: white space before and after the      *)
(* identifiers of an argument list is removed, the tag parses and its      *)
(* arguments are the identifiers; "#center( a , b )" gives a and b.        *)
ArgumentsTrimmed ==
    pc = "done" =>
        /\ mSource \in SpacedTagSources =>
              \A t \in SpacedTagTexts :
                 (mSource = t.text /\ t.name \in DOMAIN mTagBindings)
                    => ParsedWith(t.arguments)
        /\ mSource = SpacedArgumentsDocument =>
              ParsedWith(<< <<"a">>, <<"b">> >>)

(* C15. Argument trimming: white space before the identifier of an         *)
(* argument is removed, so that a tag whose arguments have white space in  *)
(* front only parses and has the identifiers as its arguments, as          *)
(* "#center( a,\n b)" has a and b; white space after an identifier ends    *)
(* the parse with the SyntaxError "Unexpected token" at that white space,  *)
(* as in "#center( a , b )".                                               *)
ArgumentsLeadTrimmed ==
    pc = "done" =>
        /\ mSource \in SpacedTagSources =>
              \A t \in SpacedTagTexts :
                 mSource = t.text =>
                    IF t.trailing
                    THEN StoppedAtSpace
                    ELSE t.name \in DOMAIN mTagBindings
                            => ParsedWith(t.arguments)
        /\ mSource = LeadingSpaceDocument =>
              ParsedWith(<< <<"a">>, <<"b">> >>)
        /\ mSource = SpacedArgumentsDocument =>
              StoppedAtSpace /\ mOffset = 10

\* "#center( a,\n b)" has been parsed: a space, and a newline and a space,
\* were skipped.
ArgumentsLeadTrimmedWitness ==
    /\ pc = "done"
    /\ mSource = LeadingSpaceDocument
    /\ result.kind = "Node"
    /\ ParsedWith(<< <<"a">>, <<"b">> >>)

----------------------------------------------------------------------------
(* C16. Attach transitions: a step that processes an AddChild or an        *)
(* AddChildAndBranch block appends one node, the block's, as the last      *)
(* child of the current branch, with that branch as its parent and the     *)
(* number of children the branch had before as its sibling index; after    *)
(* AddChild the current branch is the same, after AddChildAndBranch it is  *)
(* the new node; the nodes attached before keep their parent, their        *)
(* sibling index and their children in their order.                        *)
AttachTransitions ==
    [][ ( /\ BlockReturned
          /\ LastBlock(blocks').action \in {"AddChild", "AddChildAndBranch"} )
        => LET new   == Len(nodes) + 1
               block == LastBlock(blocks')
           IN /\ Len(nodes') = new
              /\ nodes'[root].children = Append(nodes[root].children, new)
              /\ nodes'[new].parent = Some(root)
              /\ nodes'[new].num = Some(Len(nodes[root].children))
              /\ nodes'[new].type = block.node.type
              /\ nodes'[new].text = block.node.text
              /\ nodes'[new].tag = block.node.tag
              /\ nodes'[new].children = <<>>
              /\ root' = IF block.action = "AddChild" THEN root ELSE new
              /\ \A i \in 1..Len(nodes) :
                    /\ nodes'[i].parent = nodes[i].parent
                    /\ nodes'[i].num = nodes[i].num
                    /\ i # root => nodes'[i].children = nodes[i].children
      ]_vars

\* The current branch was attached after a sibling, inside a branch, and
\* has a child of its own.
AttachTransitionsWitness ==
    /\ pc = "scan"
    /\ root # 1
    /\ value(nodes[root].parent) # 1
    /\ value(nodes[root].num) >= 1
    /\ nodes[root].children # <<>>

(* C17. Ignore: a step that processes a block whose handler returned the   *)
(* Ignore action changes neither the current branch nor any node, so the   *)
(* block's node is attached nowhere, and parse() goes on after the tag.    *)
IgnoreStep ==
    [][ (BlockReturned /\ LastBlock(blocks').action = "Ignore")
        => /\ root' = root
           /\ nodes' = nodes
           /\ pc' = "scan"
           /\ result' = NoResult
           /\ mOffset' = LastBlock(blocks').to
           /\ mOffset' > mOffset ]_vars

\* A block was ignored, a later one was attached, and the tree has no node
\* of the ignored block.
IgnoreStepWitness ==
    /\ pc = "done"
    /\ result.kind = "Node"
    /\ \E i \in 1..(Len(blocks) - 1) :
          /\ blocks[i].action = "Ignore"
          /\ blocks[i + 1].action = "AddChild"
    /\ \A n \in 1..Len(nodes) : nodes[n].type # "Null"

----------------------------------------------------------------------------
(* A text and the tag after it. *)

\* The node that the i-th block made: every attaching block makes the next.
NodeOfBlock(i) ==
    1 + Cardinality({ j \in 1..i :
                        blocks[j].action \in {"AddChild", "AddChildAndBranch"} })

(* C18. Text before a tag: at a '#' that another '#' does not follow, with *)
(* a buffer that is not empty when trimmed, the step returns the block     *)
(* (AddChild, Text of the trimmed buffer) and leaves the cursor on the     *)
(* '#'; the step after it starts at that '#' and resolves the tag, to a    *)
(* block that begins there or to the tag's error; and in the tree the      *)
(* node of the tag, if it has one, is the sibling next after the Text.     *)
TextBeforeTag ==
    /\ [][ (AtTag /\ trim(buf) # <<>>)
           => /\ BlockReturned
              /\ LastBlock(blocks') = Block("AddChild", NodeText(trim(buf)),
                                            mOffset)
              /\ nodes'[Len(nodes')].type = "Text"
              /\ nodes'[Len(nodes')].parent = Some(root)
              /\ <<mOffset', mLine', mColumn'>> = <<mOffset, mLine, mColumn>>
              /\ mSource[mOffset' + 1] = "#"
              /\ buf' = <<>>
              /\ root' = root
              /\ pc' = "scan" ]_vars
    /\ [][ ( /\ AtTag
             /\ blocks # <<>>
             /\ LastBlock(blocks).node.type = "Text"
             /\ LastBlock(blocks).to = mOffset )
           => LET tag_res == collect_tag(mSource, Cursor)
              IN IF tag_res.error
                 THEN result'.kind = "SyntaxError" /\ blocks' = blocks
                 ELSE IF tag_res.tag.name \notin DOMAIN mTagBindings
                 THEN /\ result'.kind = "TagError"
                      /\ result'.tag = tag_res.tag
                      /\ blocks' = blocks
                 ELSE /\ BlockReturned
                      /\ LastBlock(blocks').node.tag = Some(tag_res.tag)
                      /\ LastBlock(blocks').from = mOffset
                      /\ LastBlock(blocks').to > mOffset
                      /\ mOffset' = LastBlock(blocks').to ]_vars
    /\ [](\A i \in 1..(Len(blocks) - 1) :
            ( /\ blocks[i].node.type = "Text"
              /\ blocks[i + 1].from = blocks[i].to
              /\ blocks[i + 1].action \in {"AddChild", "AddChildAndBranch"} )
            => LET text == nodes[NodeOfBlock(i)]
                   next == nodes[NodeOfBlock(i + 1)]
               IN /\ text.type = "Text"
                  /\ text.text = blocks[i].node.text
                  /\ next.tag = blocks[i + 1].node.tag
                  /\ next.parent = text.parent
                  /\ value(next.num) = value(text.num) + 1)

\* A text and then the branch of the tag that ended it.
TextBeforeTagWitness ==
    \E i \in 1..(Len(blocks) - 1) :
       /\ blocks[i].node.type = "Text"
       /\ blocks[i + 1].from = blocks[i].to
       /\ blocks[i + 1].action = "AddChildAndBranch"
       /\ root = NodeOfBlock(i + 1)

----------------------------------------------------------------------------
(* The trimming of the buffer. *)

NonBlank(s) == { i \in 1..Len(s) : ~isspace(s[i]) }

Greatest(S) == CHOOSE q \in S : \A r \in S : q >= r

\* The buffer from its first to its last character that is no white space.
Core(s) ==
    IF NonBlank(s) = {} THEN <<>>
    ELSE SubSeq(s, Least(NonBlank(s)), Greatest(NonBlank(s)))

\* The buffer up to its last character that is no white space.
Front(s) ==
    IF NonBlank(s) = {} THEN <<>> ELSE SubSeq(s, 1, Greatest(NonBlank(s)))

\* The step returns a Text block.
TextReturned == BlockReturned /\ LastBlock(blocks').node.type = "Text"

(* C19 as stated. The text of a Text block is the buffer without its       *)
(* trailing white space only: a space at the front of the buffer, such as  *)
(* the one of the newline after a tag, is kept.                            *)
TrimsTrailingOnly ==
    [][ TextReturned
        => value(LastBlock(blocks').node.text) = Front(buf) ]_vars

(* C19. The text of a Text block is the buffer without its leading and     *)
(* its trailing white space: a space at the front of the buffer, such as   *)
(* the one of the newline after a tag, is not kept, and neither is one at  *)
(* the end.                                                                *)
TrimsBothEnds ==
    [][ TextReturned
        => LET text == value(LastBlock(blocks').node.text)
           IN /\ text = Core(buf)
              /\ text # <<>>
              /\ ~isspace(text[1])
              /\ ~isspace(text[Len(text)])
              /\ nodes'[Len(nodes')].text = Some(text) ]_vars

\* The title of the document, which a newline precedes and follows, is a
\* Text without a space at either end.
TrimsBothEndsWitness ==
    /\ mSource = TitleDocument
    /\ \E i \in 1..Len(nodes) : nodes[i].text = Some(TitleText)

----------------------------------------------------------------------------
(* Argument positions with nothing in them. *)

\* "#name(w1,...,wk)" for the generated lists of words that are an
\* identifier or nothing; "#name()" has one position.
PositionTagTexts ==
    { [text |-> <<"#">> \o name \o <<"(">> \o Join(l) \o <<")">>,
       name |-> name,
       positions |-> IF l = <<>> THEN << <<>> >> ELSE l] :
        name \in { Str_center, Str_end, <<"a">>, <<>> },
        l \in { l \in ArgLists(MaxArgs) :
                  \A i \in 1..Len(l) : l[i] \in PlainWords \cup { <<>> } } }

PositionTagSources == { t.text : t \in PositionTagTexts }

(* C20 as stated. Empty arguments: an argument position with no            *)
(* identifier causes no error and gives an empty argument, so that the     *)
(* tag has one argument for each position; "#center(a,,b)" has three.      *)
EmptyArgumentsRecorded ==
    pc = "done" =>
        /\ mSource \in PositionTagSources =>
              \A t \in PositionTagTexts :
                 (mSource = t.text /\ t.name \in DOMAIN mTagBindings)
                    => ParsedWith(t.positions)
        /\ mSource = EmptyArgumentDocument =>
              ParsedWith(<< <<"a">>, <<>>, <<"b">> >>)

(* C20. Empty arguments: an argument position with no identifier causes no *)
(* error and gives no argument, so that the tag has the identifiers of the *)
(* other positions, in their order: "#center()" has no argument and        *)
(* "#center(a,,b)" has a and b.                                            *)
EmptyArgumentsDropped ==
    pc = "done" =>
        /\ mSource \in PositionTagSources =>
              \A t \in PositionTagTexts :
                 (mSource = t.text /\ t.name \in DOMAIN mTagBindings)
                    => ParsedWith(SelectSeq(t.positions,
                                            LAMBDA w : w # <<>>))
        /\ mSource = EmptyArgumentDocument =>
              ParsedWith(<< <<"a">>, <<"b">> >>)

\* "#center(a,,b)" has been parsed to a node.
EmptyArgumentsDroppedWitness ==
    /\ pc = "done"
    /\ mSource = EmptyArgumentDocument
    /\ result.kind = "Node"
    /\ Len(blocks) = 1
    /\ blocks[1].node.tag # nullopt

----------------------------------------------------------------------------
(* C21. Cursor invariant: no step makes the offset smaller, and a step     *)
(* that makes the line counter greater makes it greater by one and leaves  *)
(* the column at 0.                                                        *)
CursorInvariant ==
    [][ /\ mOffset' >= mOffset
        /\ mLine' >= mLine
        /\ mLine' # mLine => (mLine' = mLine + 1 /\ mColumn' = 0) ]_vars

\* Two lines have been counted and the column is that of the third line's
\* second character.
CursorInvariantWitness ==
    /\ mLine = 2
    /\ mColumn = 1
    /\ mOffset > 3

----------------------------------------------------------------------------
(* C22 as stated. Error messages: a NodeError says "Unexpected branch      *)
(* return at root level", a TagError "Unknown tag", and a SyntaxError      *)
(* "Unexpected token" or "Unexpected EOF".                                 *)
ErrorMessages ==
    /\ result.kind = "NodeError"
          => result.message = "Unexpected branch return at root level"
    /\ result.kind = "TagError" => result.message = "Unknown tag"
    /\ result.kind = "SyntaxError"
          => result.message \in {"Unexpected token", "Unexpected EOF"}

----------------------------------------------------------------------------
(* The depth of the current branch. *)

\* The number of steps from node n up to the node without parent.
RECURSIVE Depth(_)
Depth(n) ==
    IF has_value(nodes[n].parent) THEN 1 + Depth(value(nodes[n].parent)) ELSE 0

\* The node without parent above node n.
RECURSIVE Top(_)
Top(n) == IF has_value(nodes[n].parent) THEN Top(value(nodes[n].parent)) ELSE n

\* The End blocks that closed a branch: all but the one that met the top.
SuccessfulEnds ==
    Count(blocks, "End") - (IF result.kind = "NodeError" THEN 1 ELSE 0)

\* More End than AddChildAndBranch blocks among the first k blocks.
Overdrawn(k) ==
    Count(SubSeq(blocks, 1, k), "End")
       > Count(SubSeq(blocks, 1, k), "AddChildAndBranch")

(* C23. Stack discipline: during and after a parse the depth of the        *)
(* current branch below the Root is the number of AddChildAndBranch blocks *)
(* processed less the number of End blocks that closed a branch, the       *)
(* current branch is the Root or below it, and parse() has returned a      *)
(* NodeError exactly if the blocks up to some block hold more End than     *)
(* AddChildAndBranch blocks.                                               *)
StackDiscipline ==
    pc \in {"scan", "done"} =>
        /\ Depth(root) = Count(blocks, "AddChildAndBranch") - SuccessfulEnds
        /\ Top(root) = 1
        /\ nodes[1].type = "Root"
        /\ root \in Subtree(1)
        /\ result.kind = "NodeError" <=> \E k \in 1..Len(blocks) : Overdrawn(k)
        /\ result.kind = "NodeError" => Overdrawn(Len(blocks))

\* Three branches were opened and one was closed.
StackDisciplineWitness ==
    /\ pc = "scan"
    /\ Count(blocks, "AddChildAndBranch") = 3
    /\ Count(blocks, "End") = 1
    /\ Depth(root) = 2

----------------------------------------------------------------------------
(* Termination and progress. *)

\* How often the character c occurs in s.
Occurrences(s, c) == Cardinality({ i \in 1..Len(s) : s[i] = c })

\* What the step has consumed after the '(' at position open.
ConsumedAfter(open) == SubSeq(mSource, open + 1, mOffset')

(* C24. Termination and progress: parse(), once called, returns; the       *)
(* offset is never beyond the end of the source; a step in which           *)
(* collect_block returns a block or an error ends at an offset greater     *)
(* than the one at which that call of collect_block began; and the         *)
(* argument loop consumes one delimiter for each round: a list that is     *)
(* read to its end was consumed up to its first ')' and has no more        *)
(* arguments than delimiters, and a list that fails was consumed without   *)
(* a ')'.                                                                  *)
TerminationAndProgress ==
    /\ (pc = "scan") ~> (pc = "done")
    /\ [](mOffset <= Len(mSource))
    /\ [][ BlockReturned
           => /\ LastBlock(blocks').from = blockStart
              /\ LastBlock(blocks').to = mOffset'
              /\ LastBlock(blocks').to > LastBlock(blocks').from ]_vars
    /\ [][ (result.kind = "none" /\ result'.kind \in {"SyntaxError", "TagError"})
           => mOffset' > blockStart /\ mOffset' > mOffset ]_vars
    /\ [][ LET open == mOffset + 2 + Len(IdentRun(mSource, mOffset + 1))
           IN ( /\ TagStep
                /\ open <= Len(mSource)
                /\ mSource[open] = "(" )
              => IF result'.kind = "SyntaxError"
                 THEN Occurrences(ConsumedAfter(open), ")") = 0
                 ELSE /\ mOffset' > open
                      /\ mSource[mOffset'] = ")"
                      /\ Occurrences(ConsumedAfter(open), ")") = 1
                      /\ BlockReturned =>
                            Len(value(LastBlock(blocks').node.tag).arguments)
                               <= Occurrences(ConsumedAfter(open), ",") + 1
         ]_vars

\* The document of the test has been parsed to its end.
TerminationAndProgressWitness ==
    /\ pc = "done"
    /\ mSource = SOURCE
    /\ mOffset = Len(mSource)
    /\ Len(blocks) > 10

----------------------------------------------------------------------------
(* The form of the texts. *)

\* The Text nodes of the tree.
TextNodes == { n \in 1..Len(nodes) : nodes[n].type = "Text" }

\* Not empty, no space at either end, no tab and no line end, no two
\* spaces in a row.
Normal(t) ==
    /\ t # <<>>
    /\ t[1] # " "
    /\ t[Len(t)] # " "
    /\ \A i \in 1..Len(t) : t[i] \notin {"\t", "\n", "\r"}
    /\ \A i \in 1..(Len(t) - 1) : ~(t[i] = " " /\ t[i + 1] = " ")

(* C25. Text normal form: every Text node of the tree has a text that is   *)
(* not empty, neither starts nor ends with a space, holds no tab and no    *)
(* line end and no two spaces in a row; every Text node comes from a       *)
(* stretch of the source that holds a character other than white space,    *)
(* so that a source of white space only, or white space only between two   *)
(* tags, gives no Text node.                                               *)
TextNormalForm ==
    /\ \A n \in TextNodes :
          /\ has_value(nodes[n].text)
          /\ Normal(value(nodes[n].text))
    /\ \A i \in TextBlocks :
          /\ NonBlank(BlockSpan(blocks[i])) # {}
          /\ blocks[i].action = "AddChild"
          /\ NodeOfBlock(i) \in TextNodes
          /\ nodes[NodeOfBlock(i)].text = blocks[i].node.text
    /\ Cardinality(TextNodes) = Cardinality(TextBlocks)
    /\ NonBlank(mSource) = {} => TextNodes = {}

\* The text "a bc d" has been made of "a \t\n b\t\tc\n\n\td".
TextNormalFormWitness ==
    /\ pc = "done"
    /\ mSource = WhitespaceDocument
    /\ TextNodes = {2}
    /\ nodes[2].text = Some(<<"a", " ", "b", "c", " ", "d">>)

----------------------------------------------------------------------------
(* Lines and columns. *)

\* What has been consumed of the source.
Consumed == SubSeq(mSource, 1, mOffset)

\* The positions of the line ends in s.
LineEnds(s) == { i \in 1..Len(s) : s[i] \in {"\n", "\r"} }

(* C26. Line accounting: in every state the line counter is the number of  *)
(* line ends ('\n' or '\r') consumed so far and the column is the number   *)
(* of characters consumed after the last of them, those inside the         *)
(* parentheses of a tag included; the location of a SyntaxError names the  *)
(* line of the source at which the parser stood.                           *)
LineAccounting ==
    /\ mLine = Cardinality(LineEnds(Consumed))
    /\ mColumn = mOffset - Greatest(LineEnds(Consumed) \cup {0})
    /\ result.kind = "SyntaxError"
          => result.location.line = Cardinality(LineEnds(Consumed))

----------------------------------------------------------------------------
(* Leaves, and the step of an End. *)

\* The blocks whose node parse() attached.
Attaching == { i \in 1..Len(blocks) :
                 blocks[i].action \in {"AddChild", "AddChildAndBranch"} }

\* The nodes that an AddChildAndBranch step attached.
Branches == { NodeOfBlock(i) : i \in { j \in Attaching :
                                         blocks[j].action = "AddChildAndBranch" } }

\* The step processed an End block below the top level.
SuccessfulEnd ==
    /\ BlockReturned
    /\ LastBlock(blocks').action = "End"
    /\ has_value(nodes[root].parent)

(* C27. Leaves and the End step: of the nodes that a step attached, only   *)
(* those of an AddChildAndBranch step have children (the only other node   *)
(* with children is the Root, which parse() made itself); Text nodes and   *)
(* the nodes of AddChild steps are leaves; a successful End step moves the *)
(* current branch to its parent and leaves every node, and the outcome of  *)
(* parse(), as it was; and the node of an End block, of kind Null with the *)
(* built-in bindings, is in no list of children.                           *)
LeavesAndEndFrame ==
    /\ [](pc # "config" =>
            /\ Len(nodes) = 1 + Cardinality(Attaching)
            /\ \A i \in Attaching :
                  /\ nodes[NodeOfBlock(i)].type = blocks[i].node.type
                  /\ nodes[NodeOfBlock(i)].tag = blocks[i].node.tag
                  /\ blocks[i].action = "AddChild"
                        => nodes[NodeOfBlock(i)].children = <<>>
            /\ \A n \in 1..Len(nodes) :
                  /\ nodes[n].type = "Text" => nodes[n].children = <<>>
                  /\ nodes[n].children # <<>> => n \in Branches \cup {1}
                  /\ \A k \in 1..Len(nodes[n].children) :
                        nodes[n].children[k] \in 2..Len(nodes)
            /\ \A i \in 1..Len(blocks) :
                  blocks[i].action = "End" =>
                     /\ mTagBindings = BuiltinBindings
                           => blocks[i].node.type = "Null"
                     /\ \A n \in 1..Len(nodes) :
                           /\ nodes[n].tag # blocks[i].node.tag
                           /\ nodes[n].type # blocks[i].node.type)
    /\ [][ SuccessfulEnd
           => /\ root' = value(nodes[root].parent)
              /\ root' # root
              /\ UNCHANGED <<nodes, pc, result, mSource, mTagBindings>> ]_vars

\* The nested document has been parsed: its branches were closed, and it
\* has Text and LineBreak leaves.
LeavesAndEndFrameWitness ==
    /\ pc = "done"
    /\ mSource = NestedDocument
    /\ mTagBindings = BuiltinBindings
    /\ result.kind = "Node"
    /\ Count(blocks, "End") = 3
    /\ Cardinality(Branches) = 3
    /\ \E i, j \in Attaching :
          /\ blocks[i].node.type = "Text"
          /\ blocks[j].node.type = "LineBreak"
============================================================================
